---- MODULE Spec2Model ----
(***************************************************************************)
(* A model of the stateful subsystems of the Creditra backend:             *)
(*   - the in-memory job queue          (src/src/services/jobQueue.ts)     *)
(*   - the credit-line ledger and draw  (creditService / creditLineStore)  *)
(*   - the risk-evaluation cache        (RiskEvaluationService + repo)     *)
(* Each subsystem has its own specification (QueueSpec, LedgerSpec,        *)
(* DrawSpec, RiskSpec); the variables of the other subsystems stay at      *)
(* their initial values.                                                   *)
(***************************************************************************)
EXTENDS Integers, Sequences, FiniteSets, TLC

VARIABLES
    \* ---- job queue (InMemoryJobQueue) ----
    handlers,        \* types with a registered handler        (this.handlers)
    pending,         \* sequence of jobs                        (this.pending)
    failed,          \* sequence of jobs                        (this.failed)
    running,         \* this.running
    processing,      \* this.processing
    intervalHandle,  \* TRUE when this.intervalHandle holds a timer, FALSE when null
    timers,          \* number of setInterval timers created and not cleared
    nextId,          \* module-level id counter
    ready,           \* unprocessed rest of the batch of the tick in flight;
                     \* its head is the job whose handler is being awaited
    tickOwner,       \* who called the processTick in flight: "timer" | "drain" | "none"
    drainPc,         \* position of the drain() caller
    qnow,            \* Date.now() of the queue's clock
    nextKey,         \* object identity of the next job created
    hist,            \* per job key: maxAttempts, time and delay at enqueue, the
                     \* handler outcomes and the time of the last failure
    dropped,         \* keys of jobs quarantined because no handler was registered
    \* ---- credit-line ledger (creditService) ----
    _store,            \* Map id -> CreditLine
    _transactionStore, \* Map id -> Transaction[]
    lnow,              \* wall clock read by now()
    txCount,           \* number of transaction ids handed out (randomUUID)
    lastLedger,        \* outcome of the last ledger call
    \* ---- draw service over creditLineStore ----
    creditLines,       \* the exported creditLines array
    lastDraw,          \* outcome of the last drawFromCreditLine call
    \* ---- risk-evaluation cache (RiskEvaluationService + repository) ----
    evaluations,       \* the repository's Map, as its entries in insertion order
    rnow,              \* wall clock read by new Date()
    evalCount,         \* number of evaluation ids handed out (randomUUID)
    call,              \* per caller: position and locals of its evaluateRisk call
    response,          \* per caller: what its last evaluateRisk call returned
    obs,               \* per caller: the store when its call began, whether
                       \* anything else touched store or clock since, and
                       \* how many entries the call has stored
    lastDeleted,       \* what the last deleteExpired() returned
    \* ---- reads of the ledger ----
    lastPage           \* the last getTransactions call and what it returned,
                       \* as long as no ledger write has happened since

queueVars == <<handlers, pending, failed, running, processing, intervalHandle, timers,
               nextId, ready, tickOwner, drainPc, qnow, nextKey, hist, dropped>>

ledgerVars == <<_store, _transactionStore, lnow, txCount, lastLedger>>

drawVars == <<creditLines, lastDraw>>

riskVars == <<evaluations, rnow, evalCount, call, response, obs, lastDeleted>>

pageVars == <<lastPage>>

vars == <<queueVars, ledgerVars, drawVars, riskVars, pageVars>>

nonQueueVars == <<ledgerVars, drawVars, riskVars, pageVars>>
nonLedgerVars == <<queueVars, drawVars, riskVars>>
nonDrawVars == <<queueVars, ledgerVars, riskVars, pageVars>>
nonRiskVars == <<queueVars, ledgerVars, drawVars, pageVars>>
nonPageVars == <<queueVars, ledgerVars, drawVars, riskVars>>

(***************************************************************************)
(* Bounds of the model                                                     *)
(***************************************************************************)
MaxJobs == 2
MaxTime == 2
MaxTx == 4
MaxLedgerTime == 2
MaxEvals == 3
MaxDays == 1
MaxJitter == 1

(***************************************************************************)
(* Job queue                                                               *)
(***************************************************************************)
\* An optional argument: undefined, or a value.
Undefined(dflt) == [given |-> FALSE, val |-> dflt]
Some(v) == [given |-> TRUE, val |-> v]

\* Time is counted in units of the retry backoff (500 ms by default).
retryBackoffMs == 1
DefaultMaxAttempts == 3
DefaultDelayMs == 0

JobTypes == {"email", "report"}
\* The EnqueueOptions a caller passes (maxAttempts?, delayMs?, id?).
Options(m, d, i) == [maxAttempts |-> m, delayMs |-> d, id |-> i]
EnqueueOptionsSet ==
    { Options(Undefined(0), Undefined(0), Undefined("")),
      Options(Some(0), Undefined(0), Undefined("")),
      Options(Some(1), Undefined(0), Undefined("")),
      Options(Some(2), Some(1), Undefined("")),
      Options(Undefined(0), Undefined(0), Some("job-1")) }

\* `job-${nextId++}`
generateId(n) == "job-" \o ToString(n)

\* a ?? b
Coalesce(a, b) == IF a.given THEN a.val ELSE b

NewJob(key, type, options, idCounter, t) ==
    [ key         |-> key,
      id          |-> Coalesce(options.id, generateId(idCounter)),
      type        |-> type,
      attempts    |-> 0,
      maxAttempts |-> Coalesce(options.maxAttempts, DefaultMaxAttempts),
      createdAt   |-> t,
      updatedAt   |-> t,
      nextRunAt   |-> t + Coalesce(options.delayMs, DefaultDelayMs) ]

Enqueue(type, options) ==
    /\ UNCHANGED nonQueueVars
    /\ nextKey <= MaxJobs
    /\ LET job == NewJob(nextKey, type, options, nextId, qnow) IN
         /\ pending' = Append(pending, job)
         /\ hist' = Append(hist, [maxAttempts |-> job.maxAttempts, calls |-> <<>>,
                                  enqueuedAt |-> qnow,
                                  delayMs |-> IF options.delayMs.given
                                              THEN options.delayMs.val ELSE 0,
                                  lastFailAt |-> 0,
                                  duringTick |-> processing])
    /\ nextId' = IF options.id.given THEN nextId ELSE nextId + 1
    /\ nextKey' = nextKey + 1
    /\ UNCHANGED <<handlers, failed, running, processing, intervalHandle, timers, ready,
                   tickOwner, drainPc, qnow, dropped>>

RegisterHandler(type) ==
    /\ UNCHANGED nonQueueVars
    /\ handlers' = handlers \cup {type}
    /\ UNCHANGED <<pending, failed, running, processing, intervalHandle, timers, nextId,
                   ready, tickOwner, drainPc, qnow, nextKey, hist, dropped>>

StartWithoutTimer ==
    /\ UNCHANGED nonQueueVars
    /\ running' = TRUE
    /\ UNCHANGED <<intervalHandle, timers>>
    /\ UNCHANGED <<handlers, pending, failed, processing, nextId, ready, tickOwner,
                   drainPc, qnow, nextKey, hist, dropped>>

Start ==
    /\ UNCHANGED nonQueueVars
    /\ IF running
       THEN UNCHANGED <<running, intervalHandle, timers>>
       ELSE /\ running' = TRUE
            /\ IF ~intervalHandle
               THEN intervalHandle' = TRUE /\ timers' = timers + 1
               ELSE UNCHANGED <<intervalHandle, timers>>
    /\ UNCHANGED <<handlers, pending, failed, processing, nextId, ready, tickOwner,
                   drainPc, qnow, nextKey, hist, dropped>>

\* clearInterval(this.intervalHandle): one timer less
LeakInterval(n) == n
ClearInterval(n) == n - 1

Stop ==
    /\ UNCHANGED nonQueueVars
    /\ IF ~running
       THEN UNCHANGED <<running, intervalHandle, timers>>
       ELSE /\ running' = FALSE
            /\ IF intervalHandle
               THEN intervalHandle' = FALSE /\ timers' = ClearInterval(timers)
               ELSE UNCHANGED <<intervalHandle, timers>>
    /\ UNCHANGED <<handlers, pending, failed, processing, nextId, ready, tickOwner,
                   drainPc, qnow, nextKey, hist, dropped>>

isRunning == running

size == Len(pending)

getFailedJobs == failed

\* The partition of processTick: jobs with nextRunAt <= now, in order.
IsReadyEarly(job, t) == job.nextRunAt <= t + 1
IsReady(job, t) == job.nextRunAt <= t
ReadyJobs(pend, t) == SelectSeq(pend, LAMBDA j : IsReady(j, t))
NoWaitingJobs(pend, t) == <<>>
WaitingJobs(pend, t) == SelectSeq(pend, LAMBDA j : ~IsReady(j, t))

\* this.pending.length = 0; this.pending.push(...waiting)
KeepAllPending(pend, t) == pend
PendingAfterPartition(pend, t) == WaitingJobs(pend, t)

\* if (job.attempts < job.maxAttempts)
RetryWhileAtMost(job) == job.attempts <= job.maxAttempts
ShouldRetry(job) == job.attempts < job.maxAttempts

\* The branch of a job without handler: this.failed.push(job); continue
RequeueUnroutable(q, job) ==
    [q EXCEPT !.pending = Append(@, [job EXCEPT !.attempts = @ + 1])]
DropUnroutable(q, job) == [q EXCEPT !.failed = Append(@, job)]

\* The catch block of a handler that threw or rejected.
HandleFailureKeepingCount(q, job, t) ==
    LET j1 == [job EXCEPT !.updatedAt = t] IN
    IF ShouldRetry(j1)
    THEN [q EXCEPT !.pending =
              Append(@, [j1 EXCEPT !.nextRunAt = j1.updatedAt + retryBackoffMs])]
    ELSE [q EXCEPT !.failed = Append(@, j1)]
HandleFailure(q, job, t) ==
    LET j1 == [job EXCEPT !.attempts = @ + 1, !.updatedAt = t] IN
    IF ShouldRetry(j1)
    THEN [q EXCEPT !.pending =
              Append(@, [j1 EXCEPT !.nextRunAt = j1.updatedAt + retryBackoffMs])]
    ELSE [q EXCEPT !.failed = Append(@, j1)]

\* The for loop of processTick from the head of `rdy`, run until the next
\* await: jobs without handler are dropped on the way; the loop stops at
\* the first job with a handler (which is invoked) or at the end of the batch.
\* q carries pending, failed, dropped and the rest of the batch.
RECURSIVE RunLoop(_, _)
RunLoop(q, rdy) ==
    IF rdy = <<>> THEN [q EXCEPT !.ready = <<>>]
    ELSE IF Head(rdy).type \notin handlers
         THEN RunLoop([DropUnroutable(q, Head(rdy))
                          EXCEPT !.dropped = @ \cup {Head(rdy).key}], Tail(rdy))
         ELSE [q EXCEPT !.ready = rdy]

\* After the catch block the for loop goes on with the rest of the batch.
AbortTick(q, rest) == [q EXCEPT !.ready = <<>>]
ContinueAfterCatch(q, rest) == RunLoop(q, rest)

QStateWithoutPending ==
    [pending |-> <<>>, failed |-> failed, dropped |-> dropped, ready |-> <<>>]
QState == [pending |-> pending, failed |-> failed, dropped |-> dropped, ready |-> <<>>]

\* Writes the outcome of running the loop: either a handler is now being
\* awaited (processing stays TRUE) or the batch is finished (finally block).
\* `owner` is the caller of this processTick.
Resume(q, owner) ==
    /\ pending' = q.pending
    /\ failed' = q.failed
    /\ dropped' = q.dropped
    /\ ready' = q.ready
    /\ processing' = (q.ready # <<>>)
    /\ hist' = IF q.ready = <<>> THEN hist
               ELSE [hist EXCEPT ![Head(q.ready).key].calls = Append(@, "running")]
    /\ tickOwner' = IF q.ready = <<>> THEN "none" ELSE owner
    /\ drainPc' = IF owner = "drain"
                  THEN (IF q.ready = <<>> THEN "gotTrue" ELSE "inTick")
                  ELSE drainPc

\* processTick up to its first await (or its return).
\* skipped: the early returns (not running, a tick in flight, nothing ready).
TickSkippedWithoutGuard == ~running \/ ReadyJobs(pending, qnow) = <<>>
TickSkipped == ~running \/ processing \/ ReadyJobs(pending, qnow) = <<>>

BeginTick(owner) ==
    Resume(RunLoop([QState EXCEPT !.pending = PendingAfterPartition(pending, qnow)],
                   ReadyJobs(pending, qnow)),
           owner)

\* The setInterval callback: void this.processTick()
TimerTick ==
    /\ UNCHANGED nonQueueVars
    /\ timers > 0
    /\ ~TickSkipped
    /\ BeginTick("timer")
    /\ UNCHANGED <<handlers, running, intervalHandle, timers, nextId, qnow, nextKey>>

\* A timer callback whose processTick returns false at once.
TimerTickSkipped ==
    /\ UNCHANGED nonQueueVars
    /\ timers > 0
    /\ TickSkipped
    /\ UNCHANGED queueVars

\* drain(): each loop iteration calls processTick and awaits its result.
DrainCallTick ==
    /\ UNCHANGED nonQueueVars
    /\ drainPc \in {"idle", "gotTrue"}
    /\ IF TickSkipped
       THEN /\ drainPc' = "gotFalse"
            /\ UNCHANGED <<pending, failed, dropped, ready, processing, hist, tickOwner>>
       ELSE BeginTick("drain")
    /\ UNCHANGED <<handlers, running, intervalHandle, timers, nextId, qnow, nextKey>>

\* if (!hadReady) break;  drain() resolves.
DrainReturn ==
    /\ UNCHANGED nonQueueVars
    /\ drainPc = "gotFalse"
    /\ drainPc' = "idle"
    /\ UNCHANGED <<handlers, pending, failed, running, processing, intervalHandle, timers,
                   nextId, ready, tickOwner, qnow, nextKey, hist, dropped>>

\* The awaited handler settles: ok = it resolved, otherwise it threw/rejected.
\* The loop then goes on to the next await or to the finally block.
HandlerDone(ok) ==
    /\ UNCHANGED nonQueueVars
    /\ processing
    /\ ready # <<>>
    /\ LET job == Head(ready)
           h1  == [hist EXCEPT ![job.key].calls =
                      [@ EXCEPT ![Len(@)] = IF ok THEN "ok" ELSE "fail"],
                                ![job.key].lastFailAt = IF ok THEN @ ELSE qnow]
           q0  == IF ok THEN QState ELSE HandleFailure(QState, job, qnow)
           q1  == IF ok THEN RunLoop(q0, Tail(ready))
                  ELSE ContinueAfterCatch(q0, Tail(ready))
       IN /\ pending' = q1.pending
          /\ failed' = q1.failed
          /\ dropped' = q1.dropped
          /\ ready' = q1.ready
          /\ processing' = (q1.ready # <<>>)
          /\ hist' = IF q1.ready = <<>> THEN h1
                     ELSE [h1 EXCEPT ![Head(q1.ready).key].calls = Append(@, "running")]
          /\ tickOwner' = IF q1.ready = <<>> THEN "none" ELSE tickOwner
          /\ drainPc' = IF tickOwner = "drain" /\ q1.ready = <<>> THEN "gotTrue" ELSE drainPc
    /\ UNCHANGED <<handlers, running, intervalHandle, timers, nextId, qnow, nextKey>>

\* The wall clock moves on.
AdvanceQueueClock ==
    /\ UNCHANGED nonQueueVars
    /\ qnow < MaxTime
    /\ qnow' = qnow + 1
    /\ UNCHANGED <<handlers, pending, failed, running, processing, intervalHandle, timers,
                   nextId, ready, tickOwner, drainPc, nextKey, hist, dropped>>

QueueInit ==
    /\ handlers = {}
    /\ pending = <<>>
    /\ failed = <<>>
    /\ running = FALSE
    /\ processing = FALSE
    /\ intervalHandle = FALSE
    /\ timers = 0
    /\ nextId = 1
    /\ ready = <<>>
    /\ tickOwner = "none"
    /\ drainPc = "idle"
    /\ qnow = 0
    /\ nextKey = 1
    /\ hist = <<>>
    /\ dropped = {}

QueueNext ==
    \/ \E type \in JobTypes, options \in EnqueueOptionsSet : Enqueue(type, options)
    \/ \E type \in JobTypes : RegisterHandler(type)
    \/ Start
    \/ Stop
    \/ TimerTick
    \/ TimerTickSkipped
    \/ DrainCallTick
    \/ DrainReturn
    \/ \E ok \in BOOLEAN : HandlerDone(ok)
    \/ AdvanceQueueClock

(***************************************************************************)
(* Credit-line ledger                                                      *)
(***************************************************************************)
LineIds == {"cl-1", "cl-2"}
LedgerStatuses == {"active", "suspended", "closed"}
Null == "null"

\* new Date().toISOString(): timestamps are kept as the clock's milliseconds,
\* which the ISO string determines and is determined by.
now == lnow

NoLedgerCall == [op |-> "none", id |-> "", result |-> "none",
                 currentStatus |-> "", requestedAction |-> ""]

LedgerOk(op, id) == [op |-> op, id |-> id, result |-> "ok",
                     currentStatus |-> "", requestedAction |-> ""]

CreditLineNotFoundError(op, id) ==
    [op |-> op, id |-> id, result |-> "CreditLineNotFoundError",
     currentStatus |-> "", requestedAction |-> ""]

InvalidTransitionError(op, id, currentStatus, requestedAction) ==
    [op |-> op, id |-> id, result |-> "InvalidTransitionError",
     currentStatus |-> currentStatus, requestedAction |-> requestedAction]

\* recordTransaction: the transaction list of the line with one more entry.
recordTransaction(txs, creditLineId, type, timestamp, amount, currency, action) ==
    LET existing == IF creditLineId \in DOMAIN txs THEN txs[creditLineId] ELSE <<>>
        tx == [ id           |-> txCount + 1,
                creditLineId |-> creditLineId,
                type         |-> type,
                amount       |-> amount,
                currency     |-> currency,
                timestamp    |-> timestamp,
                metadata     |-> [action |-> action] ]
    IN [i \in DOMAIN txs \cup {creditLineId} |->
           IF i = creditLineId THEN Append(existing, tx) ELSE txs[i]]

\* _store.set(id, line)
StoreSet(store, id, line) ==
    [i \in DOMAIN store \cup {id} |-> IF i = id THEN line ELSE store[i]]

\* TransactionFilters: type?, from?, to?  (from and to as the instants that
\* new Date(string).getTime() yields)
TransactionFilters(type, from, to) == [type |-> type, from |-> from, to |-> to]
NoFilters == TransactionFilters(Undefined(""), Undefined(0), Undefined(0))

\* No result of getTransactions is held.
NoPage == [id |-> "", filters |-> NoFilters,
           page |-> [result |-> "none", transactions |-> <<>>, total |-> 0,
                     page |-> 0, limit |-> 0, totalPages |-> 0]]

createCreditLine(id, status) ==
    /\ UNCHANGED nonLedgerVars
    /\ lastPage' = NoPage
    /\ txCount < MaxTx
    /\ LET ts == now
           line == [ id        |-> id,
                     status    |-> status,
                     createdAt |-> ts,
                     updatedAt |-> ts,
                     events    |-> << [action |-> "created", timestamp |-> ts] >> ]
       IN /\ _store' = StoreSet(_store, id, line)
          /\ _transactionStore' =
                recordTransaction(_transactionStore, id, "status_change", ts,
                                  Null, Null, "created")
    /\ txCount' = txCount + 1
    /\ lastLedger' = LedgerOk("create", id)
    /\ UNCHANGED lnow

\* if (line.status !== "active") throw new InvalidTransitionError(...)
SuspendAllowed(line) == line.status = "active"

\* if (line.status === "closed") throw new InvalidTransitionError(...)
CloseAnyLine(line) == TRUE
CloseAllowed(line) == line.status # "closed"

\* The common tail of suspendCreditLine and closeCreditLine.
Transition(id, status, action) ==
    LET ts == now
        line == _store[id]
    IN /\ _store' = [_store EXCEPT ![id] =
                        [line EXCEPT !.status = status,
                                     !.updatedAt = ts,
                                     !.events = Append(@, [action |-> action,
                                                           timestamp |-> ts])]]
       /\ _transactionStore' =
             recordTransaction(_transactionStore, id, "status_change", ts,
                               Null, Null, action)
       /\ txCount' = txCount + 1

suspendCreditLine(id) ==
    /\ UNCHANGED nonLedgerVars
    /\ lastPage' = NoPage
    /\ IF id \notin DOMAIN _store
       THEN /\ lastLedger' = CreditLineNotFoundError("suspend", id)
            /\ UNCHANGED <<_store, _transactionStore, txCount>>
       ELSE IF ~SuspendAllowed(_store[id])
       THEN /\ lastLedger' = InvalidTransitionError("suspend", id,
                                                    _store[id].status, "suspend")
            /\ UNCHANGED <<_store, _transactionStore, txCount>>
       ELSE /\ txCount < MaxTx
            /\ Transition(id, "suspended", "suspended")
            /\ lastLedger' = LedgerOk("suspend", id)
    /\ UNCHANGED lnow

closeCreditLine(id) ==
    /\ UNCHANGED nonLedgerVars
    /\ lastPage' = NoPage
    /\ IF id \notin DOMAIN _store
       THEN /\ lastLedger' = CreditLineNotFoundError("close", id)
            /\ UNCHANGED <<_store, _transactionStore, txCount>>
       ELSE IF ~CloseAllowed(_store[id])
       THEN /\ lastLedger' = InvalidTransitionError("close", id,
                                                    _store[id].status, "close")
            /\ UNCHANGED <<_store, _transactionStore, txCount>>
       ELSE /\ txCount < MaxTx
            /\ Transition(id, "closed", "closed")
            /\ lastLedger' = LedgerOk("close", id)
    /\ UNCHANGED lnow

getCreditLine(id) == IF id \in DOMAIN _store THEN _store[id] ELSE Null

AdvanceLedgerClock ==
    /\ UNCHANGED nonLedgerVars
    /\ lastPage' = NoPage
    /\ lnow < MaxLedgerTime
    /\ lnow' = lnow + 1
    /\ UNCHANGED <<_store, _transactionStore, txCount, lastLedger>>

LedgerInit ==
    /\ _store = << >>
    /\ _transactionStore = << >>
    /\ lnow = 0
    /\ txCount = 0
    /\ lastLedger = NoLedgerCall

LedgerNext ==
    \/ \E id \in LineIds, status \in LedgerStatuses : createCreditLine(id, status)
    \/ \E id \in LineIds : suspendCreditLine(id)
    \/ \E id \in LineIds : closeCreditLine(id)
    \/ AdvanceLedgerClock

(***************************************************************************)
(* Reads of the ledger: getTransactions                                    *)
(***************************************************************************)
TransactionTypes == {"draw", "repayment", "status_change"}

\* pagination = { page: 1, limit: 20 }
DefaultPage == 1
DefaultLimit == 20

\* tx.type === filters.type
TypeMatches(tx, type) == tx.type = type
\* new Date(tx.timestamp).getTime() >= from
AfterFrom(tx, from) == tx.timestamp > from
FromMatches(tx, from) == tx.timestamp >= from
\* new Date(tx.timestamp).getTime() <= to
ToMatches(tx, to) == tx.timestamp <= to

\* The three filter passes of getTransactions.
FilterTransactions(txs, filters) ==
    LET byType == IF filters.type.given
                  THEN SelectSeq(txs, LAMBDA tx : TypeMatches(tx, filters.type.val))
                  ELSE txs
        byFrom == IF filters.from.given
                  THEN SelectSeq(byType, LAMBDA tx : FromMatches(tx, filters.from.val))
                  ELSE byType
    IN IF filters.to.given
       THEN SelectSeq(byFrom, LAMBDA tx : ToMatches(tx, filters.to.val))
       ELSE byFrom

\* Math.ceil(a / b) for a >= 0, b >= 1
Ceil(a, b) == (a + b - 1) \div b
\* Math.max(a, b)
Max(a, b) == IF a >= b THEN a ELSE b
\* Array.prototype.slice(start, end) for 0 <= start <= end
Slice(arr, start, end) ==
    SubSeq(arr, start + 1, IF end <= Len(arr) THEN end ELSE Len(arr))

\* const offset = (page - 1) * limit
OffsetSkippingFirstPage(page, limit) == page * limit
Offset(page, limit) == (page - 1) * limit

\* What getTransactions returns (result "ok") or throws.
GetTransactions(id, filters, page, limit) ==
    IF id \notin DOMAIN _store
    THEN [result |-> "CreditLineNotFoundError", transactions |-> <<>>, total |-> 0,
          page |-> page, limit |-> limit, totalPages |-> 0]
    ELSE LET txs == FilterTransactions(IF id \in DOMAIN _transactionStore
                                       THEN _transactionStore[id] ELSE <<>>, filters)
             total == Len(txs)
             offset == Offset(page, limit)
         IN [result |-> "ok",
             transactions |-> Slice(txs, offset, offset + limit),
             total |-> total, page |-> page, limit |-> limit,
             totalPages |-> Max(1, Ceil(total, limit))]

getTransactions(id, filters, page, limit) ==
    /\ UNCHANGED nonPageVars
    /\ lastPage' = [id |-> id, filters |-> filters,
                    page |-> GetTransactions(id, filters, page, limit)]

\* The calls made: filters with their pagination.
Queries ==
    { <<NoFilters, DefaultPage, DefaultLimit>>,
      <<NoFilters, 2, 2>>,
      <<NoFilters, 3, 1>>,
      <<TransactionFilters(Some("draw"), Undefined(0), Undefined(0)), 1, 2>>,
      <<TransactionFilters(Some("status_change"), Some(1), Undefined(0)), 1, 2>>,
      <<TransactionFilters(Undefined(""), Some(1), Some(1)), 1, 1>> }

PageInit == lastPage = NoPage

\* The reads are checked over the whole life of one line beside a second
\* line that is only created, and for an id that is never created.
PageNext ==
    \/ \E status \in LedgerStatuses : createCreditLine("cl-1", status)
    \/ createCreditLine("cl-2", "active")
    \/ suspendCreditLine("cl-1")
    \/ closeCreditLine("cl-1")
    \/ AdvanceLedgerClock
    \/ \E id \in LineIds \cup {"cl-9"}, q \in Queries :
          getTransactions(id, q[1], q[2], q[3])

(***************************************************************************)
(* Draw service (drawFromCreditLine over the creditLines array)            *)
(***************************************************************************)
\* A JavaScript number: an integer or NaN.
Num(v) == [nan |-> FALSE, v |-> v]
NaN == [nan |-> TRUE, v |-> 0]

JsLe(a, b) == ~a.nan /\ ~b.nan /\ a.v <= b.v
JsGt(a, b) == ~a.nan /\ ~b.nan /\ a.v > b.v
JsAdd(a, b) == IF a.nan \/ b.nan THEN NaN ELSE Num(a.v + b.v)

StoreStatuses == {"Active", "Closed", "Suspended"}

\* The initial contents of creditLineStore.
InitialCreditLines ==
    << [ id         |-> "line-1",
         borrowerId |-> "user-1",
         limit      |-> Num(1000),
         utilized   |-> Num(0),
         status     |-> "Active" ] >>

DrawIds == {"line-1", "unknown"}
Borrowers == {"user-1", "hacker"}
Amounts == {Num(-50), Num(0), Num(200), Num(500), Num(2000), NaN}

\* creditLines.find((l) => l.id === id): the index of the first match, 0 if none
Find(lines, id) ==
    IF \E i \in DOMAIN lines : lines[i].id = id
    THEN CHOOSE i \in DOMAIN lines :
            /\ lines[i].id = id
            /\ \A j \in DOMAIN lines : lines[j].id = id => i <= j
    ELSE 0

\* The checks of drawFromCreditLine on the line found, in the order of the code.
DrawErrorAmountFirst(line, borrowerId, amount) ==
    IF line.status # "Active" THEN "INVALID_STATUS"
    ELSE IF JsLe(amount, Num(0)) THEN "INVALID_AMOUNT"
    ELSE IF line.borrowerId # borrowerId THEN "UNAUTHORIZED"
    ELSE IF JsGt(JsAdd(line.utilized, amount), line.limit) THEN "OVER_LIMIT"
    ELSE "ok"
DrawError(line, borrowerId, amount) ==
    IF line.status # "Active" THEN "INVALID_STATUS"
    ELSE IF line.borrowerId # borrowerId THEN "UNAUTHORIZED"
    ELSE IF JsLe(amount, Num(0)) THEN "INVALID_AMOUNT"
    ELSE IF JsGt(JsAdd(line.utilized, amount), line.limit) THEN "OVER_LIMIT"
    ELSE "ok"

DrawResult(id, borrowerId, amount, result) ==
    [id |-> id, borrowerId |-> borrowerId, amount |-> amount, result |-> result]

drawFromCreditLine(id, borrowerId, amount) ==
    /\ UNCHANGED nonDrawVars
    /\ LET i == Find(creditLines, id) IN
       IF i = 0
       THEN /\ lastDraw' = DrawResult(id, borrowerId, amount, "NOT_FOUND")
            /\ UNCHANGED creditLines
       ELSE LET err == DrawError(creditLines[i], borrowerId, amount) IN
            IF err # "ok"
            THEN /\ lastDraw' = DrawResult(id, borrowerId, amount, err)
                 /\ UNCHANGED creditLines
            ELSE /\ creditLines' = [creditLines EXCEPT ![i].utilized = JsAdd(@, amount)]
                 /\ lastDraw' = DrawResult(id, borrowerId, amount, "ok")

\* POST /lines/:id/repay: a placeholder response; no store is touched.
repayPlaceholder(id) ==
    /\ UNCHANGED nonDrawVars
    /\ lastDraw' = DrawResult(id, "", Num(0), "repay-placeholder")
    /\ UNCHANGED creditLines

\* creditLines is an exported mutable array: its importers (the tests) write
\* a line's status directly.
SetLineStatus(status) ==
    /\ UNCHANGED nonDrawVars
    /\ creditLines' = [creditLines EXCEPT ![1].status = status]
    /\ UNCHANGED lastDraw

DrawInit ==
    /\ creditLines = InitialCreditLines
    /\ lastDraw = DrawResult("", "", Num(0), "none")

DrawNext ==
    \/ \E id \in DrawIds, b \in Borrowers, amount \in Amounts :
          drawFromCreditLine(id, b, amount)
    \/ \E id \in DrawIds : repayPlaceholder(id)
    \/ \E status \in StoreStatuses : SetLineStatus(status)

(***************************************************************************)
(* Risk-evaluation cache                                                   *)
(***************************************************************************)
Callers == {"c1", "c2"}
Wallets == {"w1", "w2"}

\* 24 * 60 * 60 * 1000
TtlMs == 24 * 60 * 60 * 1000

NoEval == [ id |-> 0, walletAddress |-> "", riskScore |-> 0, creditLimit |-> "",
            interestRateBps |-> 0, evaluatedAt |-> 0, expiresAt |-> 0 ]

\* The mock factors of performRiskEvaluation, value and weight in tenths.
Factors == << [name |-> "wallet_age", value |-> 8, weight |-> 3],
              [name |-> "transaction_volume", value |-> 6, weight |-> 4],
              [name |-> "defi_participation", value |-> 7, weight |-> 3] >>

RECURSIVE WeightedSum(_)
WeightedSum(fs) ==
    IF fs = <<>> THEN 0 ELSE Head(fs).value * Head(fs).weight + WeightedSum(Tail(fs))

baseCreditLimit == 1000
baseRateBps == 500

\* What performRiskEvaluation returns at time t (no id yet).
\* riskScore = sum(value * weight) * 100; with value and weight in tenths
\* the sum of products is already the score.
ExpiryWithoutTtl(t) == t
ExpiryOf(t) == t + TtlMs

performRiskEvaluation(walletAddress, t) ==
    LET riskScore == WeightedSum(Factors) IN
    [ id              |-> 0,
      walletAddress   |-> walletAddress,
      riskScore       |-> riskScore,
      creditLimit     |-> ToString((baseCreditLimit * riskScore) \div 100),
      interestRateBps |-> baseRateBps + (baseRateBps * (100 - (100 - riskScore))) \div 100,
      evaluatedAt     |-> t,
      expiresAt       |-> ExpiryOf(t) ]

\* repository.save: the entry gets a fresh id and goes to the end of the Map.
save(evals, evaluation, n) == Append(evals, [evaluation EXCEPT !.id = n + 1])

\* findLatestByWalletAddress: filter by wallet, stable sort by evaluatedAt
\* descending, first element or null.
LatestOfAnyWallet(evals, walletAddress) ==
    IF evals = <<>> THEN NoEval
    ELSE evals[CHOOSE i \in DOMAIN evals : \A j \in DOMAIN evals :
                  \/ evals[j].evaluatedAt < evals[i].evaluatedAt
                  \/ (evals[j].evaluatedAt = evals[i].evaluatedAt /\ i <= j)]
findLatestByWalletAddress(evals, walletAddress) ==
    LET idx == {i \in DOMAIN evals : evals[i].walletAddress = walletAddress} IN
    IF idx = {} THEN NoEval
    ELSE evals[CHOOSE i \in idx : \A j \in idx :
                  \/ evals[j].evaluatedAt < evals[i].evaluatedAt
                  \/ (evals[j].evaluatedAt = evals[i].evaluatedAt /\ i <= j)]

\* The second half of isValid: latest.expiresAt > new Date()
UnexpiredOrExpiringNow(latest, t) == latest # NoEval /\ latest.expiresAt >= t
Unexpired(latest, t) == latest # NoEval /\ latest.expiresAt > t

\* The loop of deleteExpired over the entries, with the running count.
DeletesAtOrBefore(evaluation, t) == evaluation.expiresAt <= t
IsExpired(evaluation, t) == evaluation.expiresAt < t

RECURSIVE DeleteLoop(_, _, _)
DeleteLoop(evals, t, acc) ==
    IF evals = <<>> THEN acc
    ELSE IF IsExpired(Head(evals), t)
         THEN DeleteLoop(Tail(evals), t, [acc EXCEPT !.deletedCount = @ + 1])
         ELSE DeleteLoop(Tail(evals), t, [acc EXCEPT !.kept = Append(@, Head(evals))])

NoResult == [kind |-> "none", walletAddress |-> "", riskScore |-> 0,
             creditLimit |-> "", interestRateBps |-> 0]

ErrorResult == [kind |-> "error", walletAddress |-> "", riskScore |-> 0,
                creditLimit |-> "", interestRateBps |-> 0]

\* message: 'Using cached risk evaluation'
CachedResult(e) == [kind |-> "cached", walletAddress |-> e.walletAddress,
                    riskScore |-> e.riskScore, creditLimit |-> e.creditLimit,
                    interestRateBps |-> e.interestRateBps]

\* message: 'New risk evaluation completed'
NewResult(e) == [kind |-> "new", walletAddress |-> e.walletAddress,
                 riskScore |-> e.riskScore, creditLimit |-> e.creditLimit,
                 interestRateBps |-> e.interestRateBps]

IdleCall == [pc |-> "idle", walletAddress |-> "", forceRefresh |-> FALSE,
             latest |-> NoEval, isValid |-> FALSE, cached |-> NoEval,
             evaluation |-> NoEval]

\* A call that has returned: its locals are gone, its arguments are kept.
Returned(c) == [IdleCall EXCEPT !.walletAddress = c.walletAddress,
                                !.forceRefresh = c.forceRefresh]

NoObs == [store |-> <<>>, disturbed |-> TRUE, stored |-> 0]

\* Every caller other than p sees that store or clock changed under it.
Disturb(o, p) ==
    [q \in Callers |->
        IF q = p THEN o[q]
        ELSE [store |-> <<>>, disturbed |-> TRUE, stored |-> o[q].stored]]

InFlight == Cardinality({p \in Callers : call[p].pc \notin {"idle"}})

\* evaluateRisk up to its first await.
evaluateRisk(p, walletAddress, forceRefresh) ==
    /\ UNCHANGED nonRiskVars
    /\ call[p].pc = "idle"
    /\ evalCount + InFlight < MaxEvals
    /\ IF walletAddress = ""
       THEN /\ call' = [call EXCEPT ![p] = IdleCall]
            /\ response' = [response EXCEPT ![p] = ErrorResult]
            /\ obs' = [obs EXCEPT ![p] = NoObs]
       ELSE LET latest == findLatestByWalletAddress(evaluations, walletAddress) IN
            /\ call' = [call EXCEPT ![p] =
                  IF forceRefresh
                  THEN [IdleCall EXCEPT !.pc = "performed",
                           !.walletAddress = walletAddress, !.forceRefresh = TRUE,
                           !.evaluation = performRiskEvaluation(walletAddress, rnow)]
                  ELSE [IdleCall EXCEPT !.pc = "isValid",
                           !.walletAddress = walletAddress, !.latest = latest]]
            /\ response' = [response EXCEPT ![p] = NoResult]
            /\ obs' = [obs EXCEPT ![p] =
                  [store |-> evaluations, disturbed |-> FALSE, stored |-> 0]]
    /\ UNCHANGED <<evaluations, rnow, evalCount, lastDeleted>>

\* isValid resumes after its await of findLatestByWalletAddress.
IsValidResume(p) ==
    /\ UNCHANGED nonRiskVars
    /\ call[p].pc = "isValid"
    /\ call' = [call EXCEPT ![p].pc = "gotValid",
                            ![p].isValid = Unexpired(call[p].latest, rnow)]
    /\ UNCHANGED <<evaluations, rnow, evalCount, response, obs, lastDeleted>>

\* evaluateRisk resumes with the response of isValid.
AfterIsValid(p) ==
    /\ UNCHANGED nonRiskVars
    /\ call[p].pc = "gotValid"
    /\ call' = [call EXCEPT ![p] =
          IF call[p].isValid
          THEN [@ EXCEPT !.pc = "gotCached",
                   !.cached = findLatestByWalletAddress(evaluations,
                                                        call[p].walletAddress)]
          ELSE [@ EXCEPT !.pc = "performed",
                   !.evaluation = performRiskEvaluation(call[p].walletAddress, rnow)]]
    /\ UNCHANGED <<evaluations, rnow, evalCount, response, obs, lastDeleted>>

\* evaluateRisk resumes with the cached evaluation.
AfterFindCached(p) ==
    /\ UNCHANGED nonRiskVars
    /\ call[p].pc = "gotCached"
    /\ IF call[p].cached # NoEval
       THEN /\ call' = [call EXCEPT ![p] = Returned(call[p])]
            /\ response' = [response EXCEPT ![p] = CachedResult(call[p].cached)]
       ELSE /\ call' = [call EXCEPT ![p].pc = "performed",
                   ![p].evaluation = performRiskEvaluation(call[p].walletAddress, rnow)]
            /\ UNCHANGED response
    /\ UNCHANGED <<evaluations, rnow, evalCount, obs, lastDeleted>>

\* evaluateRisk resumes with the new evaluation and calls repository.save.
SaveEvaluation(p) ==
    /\ UNCHANGED nonRiskVars
    /\ call[p].pc = "performed"
    /\ evaluations' = save(evaluations, call[p].evaluation, evalCount)
    /\ evalCount' = evalCount + 1
    /\ call' = [call EXCEPT ![p].pc = "saved"]
    /\ obs' = [Disturb(obs, p) EXCEPT ![p].stored = @ + 1]
    /\ UNCHANGED <<rnow, response, lastDeleted>>

\* evaluateRisk resumes after save and returns.
ReturnNew(p) ==
    /\ UNCHANGED nonRiskVars
    /\ call[p].pc = "saved"
    /\ call' = [call EXCEPT ![p] = Returned(call[p])]
    /\ response' = [response EXCEPT ![p] = NewResult(call[p].evaluation)]
    /\ UNCHANGED <<evaluations, rnow, evalCount, obs, lastDeleted>>

\* deleteExpired(): no await inside, so it runs in one piece.
deleteExpired ==
    /\ UNCHANGED nonRiskVars
    /\ LET r == DeleteLoop(evaluations, rnow, [kept |-> <<>>, deletedCount |-> 0]) IN
         /\ evaluations' = r.kept
         /\ lastDeleted' = r.deletedCount
         /\ obs' = IF r.deletedCount = 0 THEN obs ELSE Disturb(obs, "")
    /\ UNCHANGED <<rnow, evalCount, call, response>>

\* A direct repository.save by another client of the repository, with an
\* evaluation of its own making (a short-lived one, possibly back-dated).
RepoSave(walletAddress, evaluatedAt) ==
    /\ UNCHANGED nonRiskVars
    /\ evalCount + InFlight < MaxEvals
    /\ evaluations' = save(evaluations,
                           [ id |-> 0, walletAddress |-> walletAddress,
                             riskScore |-> 20, creditLimit |-> "200",
                             interestRateBps |-> 900,
                             evaluatedAt |-> evaluatedAt,
                             expiresAt |-> rnow + 1 ],
                           evalCount)
    /\ evalCount' = evalCount + 1
    /\ obs' = Disturb(obs, "")
    /\ UNCHANGED <<rnow, call, response, lastDeleted>>

\* The wall clock moves on, by a millisecond or by a day.
AdvanceRiskClock(d) ==
    /\ UNCHANGED nonRiskVars
    /\ rnow + d <= MaxDays * TtlMs + MaxJitter
    /\ (rnow + d) % TtlMs <= MaxJitter
    /\ rnow' = rnow + d
    /\ obs' = Disturb(obs, "")
    /\ UNCHANGED <<evaluations, evalCount, call, response, lastDeleted>>

RiskInit ==
    /\ evaluations = <<>>
    /\ rnow = 0
    /\ evalCount = 0
    /\ call = [p \in Callers |-> IdleCall]
    /\ response = [p \in Callers |-> NoResult]
    /\ obs = [p \in Callers |-> NoObs]
    /\ lastDeleted = 0

RiskNext ==
    \/ \E p \in Callers, w \in Wallets \cup {""}, f \in BOOLEAN : evaluateRisk(p, w, f)
    \/ \E p \in Callers : IsValidResume(p)
    \/ \E p \in Callers : AfterIsValid(p)
    \/ \E p \in Callers : AfterFindCached(p)
    \/ \E p \in Callers : SaveEvaluation(p)
    \/ \E p \in Callers : ReturnNew(p)
    \/ deleteExpired
    \/ \E w \in Wallets, t \in {0, rnow} : RepoSave(w, t)
    \/ \E d \in {1, TtlMs} : AdvanceRiskClock(d)

(***************************************************************************)
(* Specifications                                                          *)
(***************************************************************************)
Init == QueueInit /\ LedgerInit /\ DrawInit /\ RiskInit /\ PageInit

QueueSpec == Init /\ [][QueueNext]_vars

\* The wall clock of a queue that is left running: time goes on for as long
\* as a pending job waits for its nextRunAt.
TimePasses ==
    /\ UNCHANGED nonQueueVars
    /\ \/ qnow < MaxTime
       \/ \E i \in DOMAIN pending : pending[i].nextRunAt > qnow
    /\ qnow' = qnow + 1
    /\ UNCHANGED <<handlers, pending, failed, running, processing, intervalHandle, timers,
                   nextId, ready, tickOwner, drainPc, nextKey, hist, dropped>>

\* A queue that is started and never stopped, driven by its timer alone.
RunningQueueNext ==
    \/ \E type \in JobTypes, options \in EnqueueOptionsSet : Enqueue(type, options)
    \/ \E type \in JobTypes : RegisterHandler(type)
    \/ Start
    \/ TimerTick
    \/ \E ok \in BOOLEAN : HandlerDone(ok)
    \/ TimePasses

\* setInterval keeps calling processTick, every awaited handler settles,
\* and Date.now() keeps growing.
RunningQueueSpec ==
    /\ Init
    /\ [][RunningQueueNext]_vars
    /\ WF_vars(TimerTick)
    /\ WF_vars(\E ok \in BOOLEAN : HandlerDone(ok))
    /\ WF_vars(TimePasses)
LedgerSpec == Init /\ [][LedgerNext]_vars
DrawSpec == Init /\ [][DrawNext]_vars

\* The ledger and the draw service used on one and the same line id.
GateNext ==
    \/ \E status \in LedgerStatuses : createCreditLine("line-1", status)
    \/ suspendCreditLine("line-1")
    \/ closeCreditLine("line-1")
    \/ AdvanceLedgerClock
    \/ \E b \in Borrowers, amount \in Amounts : drawFromCreditLine("line-1", b, amount)

GateSpec == Init /\ [][GateNext]_vars
RiskSpec == Init /\ [][RiskNext]_vars
PageSpec == Init /\ [][PageNext]_vars

(***************************************************************************)
(* Properties of the job queue                                             *)
(***************************************************************************)
InSeq(seq, k) == \E i \in DOMAIN seq : seq[i].key = k
Occurrences(seq, k) == Cardinality({i \in DOMAIN seq : seq[i].key = k})
AllFail(calls) == \A i \in DOMAIN calls : calls[i] = "fail"
NoSuccess(calls) == \A i \in DOMAIN calls : calls[i] # "ok"
Failures(calls) == Cardinality({i \in DOMAIN calls : calls[i] = "fail"})
\* Every copy of job k held by the queue carries attempts = its failed calls.
AttemptsMatchCalls(k) ==
    \A seq \in {pending, failed} : \A i \in DOMAIN seq :
        seq[i].key = k => seq[i].attempts = Failures(hist[k].calls)

\* C1: a job enqueued with maxAttempts >= 1 whose handler has failed on
\* every invocation has been invoked at most maxAttempts times; once it has
\* failed maxAttempts times it is in the failed set exactly once and in
\* neither pending nor the batch being processed; and a job whose handler
\* was invoked reaches the failed set only after exactly maxAttempts failures.
RetryBound ==
    \A k \in DOMAIN hist :
        LET calls == hist[k].calls
            maxAttempts == hist[k].maxAttempts
        IN (maxAttempts >= 1 /\ NoSuccess(calls)) =>
              /\ Len(calls) <= maxAttempts
              /\ Occurrences(failed, k) <= 1
              /\ AttemptsMatchCalls(k)
              /\ (Len(calls) = maxAttempts /\ AllFail(calls)) =>
                    /\ Occurrences(failed, k) = 1
                    /\ ~InSeq(pending, k)
                    /\ ~InSeq(ready, k)
              /\ (InSeq(failed, k) /\ k \notin dropped) =>
                    (Len(calls) = maxAttempts /\ AllFail(calls))

\* A job with maxAttempts >= 2 failed maxAttempts times and sits in failed.
RetryBoundWitness ==
    \E k \in DOMAIN hist :
        /\ hist[k].maxAttempts >= 2
        /\ Len(hist[k].calls) = hist[k].maxAttempts
        /\ AllFail(hist[k].calls)
        /\ InSeq(failed, k)

\* C2: a job whose handler succeeded did so on its last invocation N, after
\* failing on invocations 1..N-1, with N <= maxAttempts (for maxAttempts >= 1);
\* it was never invoked again and is in neither pending, nor failed, nor the
\* batch being processed.
SuccessOnNthAttempt ==
    \A k \in DOMAIN hist :
        LET calls == hist[k].calls
            N == Len(calls)
        IN (\E i \in DOMAIN calls : calls[i] = "ok") =>
              /\ calls[N] = "ok"
              /\ \A i \in 1..(N - 1) : calls[i] = "fail"
              /\ hist[k].maxAttempts >= 1 => N <= hist[k].maxAttempts
              /\ ~InSeq(pending, k)
              /\ ~InSeq(failed, k)
              /\ ~InSeq(ready, k)

\* A job succeeded on its second or later attempt.
SuccessOnNthAttemptWitness ==
    \E k \in DOMAIN hist :
        /\ Len(hist[k].calls) >= 2
        /\ hist[k].calls[Len(hist[k].calls)] = "ok"
        /\ hist[k].calls[1] = "fail"

\* C10: a job that was due while its type had no handler is in the failed
\* set exactly once with attempts 0, no handler was ever invoked for it, and
\* it is in neither pending nor the batch being processed, whatever is
\* registered afterwards; and the tick that found it moved it to the failed
\* set before it returned.
UnroutableQuarantined ==
    \A k \in dropped :
        /\ hist[k].calls = <<>>
        /\ Occurrences(failed, k) = 1
        /\ \A i \in DOMAIN failed : failed[i].key = k => failed[i].attempts = 0
        /\ ~InSeq(pending, k)
        /\ ~InSeq(ready, k)

\* A job was quarantined, its type got a handler later, and time has passed.
UnroutableQuarantinedWitness ==
    \E k \in dropped : \E i \in DOMAIN failed :
        /\ failed[i].key = k
        /\ failed[i].type \in handlers
        /\ qnow > failed[i].nextRunAt

(***************************************************************************)
(* Properties of the credit-line ledger                                    *)
(***************************************************************************)
AllowedStatusChange(from, to) ==
    \/ from = to
    \/ from = "active" /\ to \in {"suspended", "closed"}
    \/ from = "suspended" /\ to = "closed"

\* C4: in every step the status of a stored line stays or moves along
\* active -> suspended, active -> closed or suspended -> closed; so closed is
\* terminal and a line that left active never is active again.
StatusStateMachine ==
    [][\A id \in (DOMAIN _store) \cap (DOMAIN _store') :
          AllowedStatusChange(_store[id].status, _store'[id].status)]_vars

BalanceInvariant ==
    \A i \in DOMAIN creditLines :
        /\ ~creditLines[i].utilized.nan
        /\ 0 <= creditLines[i].utilized.v
        /\ creditLines[i].utilized.v <= creditLines[i].limit.v

\* The outcome the checks give when applied in the stated order.
FirstFailingCheck(id, borrowerId, amount) ==
    IF \A i \in DOMAIN creditLines : creditLines[i].id # id THEN "NOT_FOUND"
    ELSE LET line == creditLines[CHOOSE i \in DOMAIN creditLines :
                                    creditLines[i].id = id]
         IN CASE line.status # "Active" -> "INVALID_STATUS"
              [] line.status = "Active" /\ line.borrowerId # borrowerId -> "UNAUTHORIZED"
              [] line.status = "Active" /\ line.borrowerId = borrowerId
                   /\ JsLe(amount, Num(0)) -> "INVALID_AMOUNT"
              [] line.status = "Active" /\ line.borrowerId = borrowerId
                   /\ ~JsLe(amount, Num(0))
                   /\ JsGt(JsAdd(line.utilized, amount), line.limit) -> "OVER_LIMIT"
              [] OTHER -> "ok"

\* C6: a draw reports NOT_FOUND for an unknown line, else INVALID_STATUS for
\* a line that is not Active, else UNAUTHORIZED for a borrower who is not
\* the owner, else INVALID_AMOUNT for amount <= 0, else OVER_LIMIT for
\* utilized + amount > limit: the earliest failing check of this order; and a
\* draw that reports an error leaves every credit line unchanged.
DrawValidationOrder ==
    [][\A id \in DrawIds, b \in Borrowers, amount \in Amounts :
          drawFromCreditLine(id, b, amount) =>
              /\ lastDraw'.result = FirstFailingCheck(id, b, amount)
              /\ lastDraw'.result # "ok" => creditLines' = creditLines
      ]_vars

\* A draw on which three checks fail at once (status, owner, amount) was
\* answered with the first of them.
DrawValidationOrderWitness ==
    /\ lastDraw.result = "INVALID_STATUS"
    /\ lastDraw.borrowerId = "hacker"
    /\ lastDraw.amount = Num(-50)
    /\ lastDraw.id = "line-1"

(***************************************************************************)
(* Properties of the risk-evaluation cache                                 *)
(***************************************************************************)
\* The evaluations of wallet w in `store` with the greatest evaluatedAt.
LatestEntries(store, w) ==
    {store[i] : i \in {i \in DOMAIN store :
        /\ store[i].walletAddress = w
        /\ \A j \in DOMAIN store : store[j].walletAddress = w =>
               store[j].evaluatedAt <= store[i].evaluatedAt}}

\* Caller p's call is on a wallet, and nothing but the call itself has
\* touched the store or the clock since it began.
Undisturbed(p) == call[p].walletAddress # "" /\ ~obs[p].disturbed

HadValidLatest(p) ==
    /\ LatestEntries(obs[p].store, call[p].walletAddress) # {}
    /\ \A e \in LatestEntries(obs[p].store, call[p].walletAddress) : rnow < e.expiresAt

HadNoValidLatest(p) ==
    \A e \in LatestEntries(obs[p].store, call[p].walletAddress) : rnow >= e.expiresAt

Completed(p) == call[p].pc = "idle" /\ response[p].kind \in {"cached", "new"}

SameValues(r, e) ==
    /\ r.walletAddress = e.walletAddress
    /\ r.riskScore = e.riskScore
    /\ r.creditLimit = e.creditLimit
    /\ r.interestRateBps = e.interestRateBps

\* C7: an undisturbed evaluateRisk(w) without forceRefresh, begun when the
\* latest stored evaluation of w existed and now < its expiresAt, stores
\* nothing and leaves the store as it was; when it has returned, its
\* response carries that evaluation's riskScore, creditLimit and
\* interestRateBps and is tagged as cached; and two such calls on the same
\* wallet return the same riskScore.
CacheHit ==
    \A p \in Callers :
        (Undisturbed(p) /\ ~call[p].forceRefresh /\ HadValidLatest(p)) =>
            /\ obs[p].stored = 0
            /\ evaluations = obs[p].store
            /\ response[p].kind \in {"none", "cached"}
            /\ Completed(p) =>
                  /\ response[p].kind = "cached"
                  /\ \E e \in LatestEntries(obs[p].store, call[p].walletAddress) :
                        SameValues(response[p], e)
                  /\ \A q \in Callers :
                        (Undisturbed(q) /\ ~call[q].forceRefresh /\ Completed(q)
                            /\ call[q].walletAddress = call[p].walletAddress) =>
                        response[q].riskScore = response[p].riskScore

\* A call was served from the cache while the other wallet had a later
\* evaluation and the clock had moved past the evaluation's creation.
CacheHitWitness ==
    \E p \in Callers :
        /\ Undisturbed(p) /\ ~call[p].forceRefresh /\ HadValidLatest(p)
        /\ Completed(p)
        /\ response[p].kind = "cached"
        /\ \E i \in DOMAIN evaluations :
              /\ evaluations[i].walletAddress # call[p].walletAddress
              /\ \A e \in LatestEntries(evaluations, call[p].walletAddress) :
                    /\ e.evaluatedAt < evaluations[i].evaluatedAt
                    /\ e.evaluatedAt < rnow

\* What holds in every state of a call on the recompute path.
RecomputeState ==
    \A p \in Callers :
        /\ (call[p].walletAddress # "" /\ call[p].forceRefresh) =>
              /\ call[p].pc \in {"performed", "saved", "idle"}
              /\ obs[p].stored <= 1
              /\ Completed(p) => (response[p].kind = "new" /\ obs[p].stored = 1)
        /\ (Undisturbed(p) /\ (call[p].forceRefresh \/ HadNoValidLatest(p))) =>
              IF call[p].pc \in {"isValid", "gotValid", "performed"}
              THEN obs[p].stored = 0 /\ evaluations = obs[p].store
              ELSE /\ call[p].pc \in {"saved", "idle"}
                   /\ obs[p].stored = 1
                   /\ Len(evaluations) = Len(obs[p].store) + 1
                   /\ SubSeq(evaluations, 1, Len(obs[p].store)) = obs[p].store
                   /\ LET e == evaluations[Len(evaluations)] IN
                         /\ e.walletAddress = call[p].walletAddress
                         /\ e.evaluatedAt = rnow
                         /\ e.expiresAt = rnow + 24 * 60 * 60 * 1000
                         /\ e.expiresAt > e.evaluatedAt
                         /\ Completed(p) =>
                               (response[p].kind = "new" /\ SameValues(response[p], e))

\* What every storing step of evaluateRisk does to the store.
RecomputeStep ==
    \A p \in Callers :
        obs'[p].stored # obs[p].stored /\ call[p].pc # "idle" =>
            /\ obs'[p].stored = obs[p].stored + 1
            /\ Len(evaluations') = Len(evaluations) + 1
            /\ SubSeq(evaluations', 1, Len(evaluations)) = evaluations
            /\ LET e == evaluations'[Len(evaluations')] IN
                  /\ e.expiresAt = e.evaluatedAt + 24 * 60 * 60 * 1000
                  /\ e.evaluatedAt <= rnow
                  /\ e.walletAddress = call[p].walletAddress

\* C8: evaluateRisk(w) with forceRefresh true never consults the cache
\* validity and, whatever else happens, stores exactly one evaluation and
\* returns tagged as new; an undisturbed evaluateRisk(w) with forceRefresh
\* true or with no unexpired latest evaluation of w appends exactly one
\* entry to the store as it was, with evaluatedAt = now and expiresAt =
\* now + 24h > evaluatedAt, and returns its values tagged as new; and every
\* storing step of evaluateRisk appends one entry with expiresAt =
\* evaluatedAt + 24h and changes or removes no existing entry.
RecomputePath == []RecomputeState /\ [][RecomputeStep]_vars

\* A forced refresh has returned a new evaluation although the wallet's
\* latest evaluation was still valid, and an expired one was recomputed.
RecomputePathWitness ==
    \E p, q \in Callers :
        /\ Undisturbed(p) /\ call[p].forceRefresh /\ HadValidLatest(p)
        /\ Completed(p) /\ response[p].kind = "new"
        /\ Len(evaluations) = Len(obs[p].store) + 1
        /\ q # p /\ ~call[q].forceRefresh /\ response[q].kind = "new"

IsPrefix(a, b) == Len(a) <= Len(b) /\ SubSeq(b, 1, Len(a)) = a

\* C9: a deleteExpired() step at time T leaves in the store exactly the
\* evaluations with expiresAt >= T, unchanged and in their order, and
\* returns the number of entries it removed; no other step (of evaluateRisk,
\* of isValid, of save, of the clock) removes or changes a stored entry or
\* produces a deletion count.
DeleteExpiredExact ==
    [][/\ deleteExpired =>
            /\ evaluations' = SelectSeq(evaluations, LAMBDA e : e.expiresAt >= rnow)
            /\ lastDeleted' = Len(evaluations) - Len(evaluations')
       /\ ~deleteExpired =>
            /\ IsPrefix(evaluations, evaluations')
            /\ lastDeleted' = lastDeleted
      ]_vars

\* deleteExpired() ran at T = 24h, removed an entry and kept one whose
\* expiresAt is exactly T.
DeleteExpiredExactWitness ==
    /\ rnow = 24 * 60 * 60 * 1000
    /\ lastDeleted >= 1
    /\ \E i \in DOMAIN evaluations : evaluations[i].expiresAt = rnow

(***************************************************************************)
(* Properties of the job queue: ticks, drain, timing, start and stop       *)
(***************************************************************************)
\* The handler invocations that have not settled yet.
InFlightCalls ==
    UNION {{<<k, i>> : i \in {j \in DOMAIN hist[k].calls : hist[k].calls[j] = "running"}} :
              k \in DOMAIN hist}

\* One tick at most is between its first await and its finally block, and
\* one handler invocation at most is in flight: the one for the head of
\* that tick's batch.
OneTickInFlight ==
    /\ Cardinality(InFlightCalls) <= 1
    /\ processing <=> Cardinality(InFlightCalls) = 1
    /\ processing <=> ready # <<>>
    /\ processing <=> tickOwner # "none"
    /\ processing =>
          InFlightCalls = {<<Head(ready).key, Len(hist[Head(ready).key].calls)>>}

\* A processTick called while a tick is in progress processes no job.
TickDuringTickSkipped ==
    (processing /\ (TimerTick \/ TimerTickSkipped \/ DrainCallTick)) =>
        UNCHANGED <<pending, failed, ready, hist, dropped, processing, tickOwner>>

\* C11: under every interleaving of timer ticks, drain() calls, enqueue
\* calls and handler outcomes, at most one tick is processing and at most
\* one handler invocation is in flight; a processTick called by the timer or
\* by drain() while a tick is in progress changes nothing and invokes no
\* handler.
TicksNeverOverlap == []OneTickInFlight /\ [][TickDuringTickSkipped]_vars

\* drain() called processTick while a timer tick was awaiting a handler and
\* a due job was pending, and got false.
TicksNeverOverlapWitness ==
    /\ processing
    /\ tickOwner = "timer"
    /\ drainPc = "gotFalse"
    /\ ReadyJobs(pending, qnow) # <<>>
\* C12: on a started queue, when the processTick that ends the loop of
\* drain() returns false, no pending job is due (nextRunAt <= now).
DrainLeavesNoDueJob ==
    [][(DrainCallTick /\ running /\ drainPc' = "gotFalse") =>
          ReadyJobs(pending', qnow') = <<>>]_vars
\* The time before which the next invocation of job k must not happen.
NotBefore(k) ==
    IF hist[k].calls = <<>> THEN hist[k].enqueuedAt + hist[k].delayMs
    ELSE hist[k].lastFailAt + retryBackoffMs

\* Every job waiting in pending is scheduled for exactly that time.
ScheduledAtDueTime ==
    \A i \in DOMAIN pending :
        pending[i].nextRunAt = NotBefore(pending[i].key)

\* A step that invokes a handler does so at or after the job's due time.
InvokedWhenDue ==
    \A k \in DOMAIN hist :
        Len(hist'[k].calls) > Len(hist[k].calls) => qnow' >= NotBefore(k)

\* C13: a handler is invoked for a job no earlier than enqueue time +
\* delayMs on the first attempt and no earlier than retryBackoffMs after the
\* preceding failed attempt on every retry; a pending job's nextRunAt is
\* enqueue time + delayMs before its first attempt and time of the last
\* failure + retryBackoffMs after it, whatever the attempt number.
NeverInvokedBeforeDue == []ScheduledAtDueTime /\ [][InvokedWhenDue]_vars

\* A delayed job was retried exactly one backoff after its first failure.
NeverInvokedBeforeDueWitness ==
    \E k \in DOMAIN hist :
        /\ hist[k].delayMs >= 1
        /\ Len(hist[k].calls) = 2
        /\ hist[k].calls[1] = "fail"
        /\ hist[k].lastFailAt = hist[k].enqueuedAt + hist[k].delayMs
        /\ qnow = hist[k].lastFailAt + retryBackoffMs
\* At most one scheduling timer exists, and it exists exactly while the
\* queue is running.
OneTimer ==
    /\ timers <= 1
    /\ timers = 1 <=> running
    /\ intervalHandle <=> running
    /\ (running /\ ~processing /\ ReadyJobs(pending, qnow) # <<>>) => ENABLED TimerTick

\* What start() and stop() change.
StartStopEffect ==
    /\ (Start /\ running) => UNCHANGED queueVars
    /\ (Stop /\ ~running) => UNCHANGED queueVars
    /\ Start => (running' /\ timers' = 1)
    /\ Stop => (~running' /\ timers' = 0)
    /\ (Start \/ Stop) =>
          UNCHANGED <<handlers, pending, failed, processing, ready, hist, dropped, qnow>>

\* C14: start() on a running queue and stop() on a stopped queue change
\* nothing; at most one scheduling timer exists at any time, and one exists
\* exactly while the queue is running; stop() leaves the pending list and
\* the failed set as they were; and on a running queue with a due pending
\* job and no tick in flight the timer's tick processes it.
StartStopIdempotent == []OneTimer /\ [][StartStopEffect]_vars

\* The queue ran, was stopped, and still holds a due pending job and a
\* failed job.
StartStopIdempotentWitness ==
    /\ ~running
    /\ timers = 0
    /\ failed # <<>>
    /\ ReadyJobs(pending, qnow) # <<>>
    /\ \E k \in DOMAIN hist : hist[k].calls # <<>>
(***************************************************************************)
(* Properties of the ledger's events and transactions                      *)
(***************************************************************************)
\* C15: in every step the events list of every stored line and the
\* transaction list of every line are extended at their end or left alone:
\* the old list is a prefix of the new one.
LedgerAppendOnly ==
    [][/\ \A id \in DOMAIN _store :
             /\ id \in DOMAIN _store'
             /\ IsPrefix(_store[id].events, _store'[id].events)
       /\ \A id \in DOMAIN _transactionStore :
             /\ id \in DOMAIN _transactionStore'
             /\ IsPrefix(_transactionStore[id], _transactionStore'[id])
      ]_vars
(***************************************************************************)
(* Properties of getTransactions                                           *)
(***************************************************************************)
\* The filters and page sizes the properties range over.
PageFilterSet ==
    { NoFilters,
      TransactionFilters(Some("draw"), Undefined(0), Undefined(0)),
      TransactionFilters(Some("status_change"), Some(1), Undefined(0)),
      TransactionFilters(Undefined(""), Some(1), Some(1)) }
FilterSet ==
    {TransactionFilters(type, w[1], w[2]) :
        type \in {Undefined(""), Some("status_change"), Some("draw")},
        w \in {<<Undefined(0), Undefined(0)>>, <<Some(1), Undefined(0)>>,
               <<Undefined(0), Some(1)>>, <<Some(1), Some(1)>>}}
LimitSet == {1, 2, 3}

\* The log of line id as recordTransaction wrote it.
LogOf(id) == IF id \in DOMAIN _transactionStore THEN _transactionStore[id] ELSE <<>>

\* Entry tx is inside the window of filters f.
InWindow(tx, f) ==
    /\ f.type.given => tx.type = f.type.val
    /\ f.from.given => f.from.val <= tx.timestamp
    /\ f.to.given => tx.timestamp <= f.to.val

Filtered(id, f) == SelectSeq(LogOf(id), LAMBDA tx : InWindow(tx, f))

RECURSIVE ConcatPages(_, _, _, _, _)
ConcatPages(id, f, limit, from, to) ==
    IF from > to THEN <<>>
    ELSE GetTransactions(id, f, from, limit).transactions
            \o ConcatPages(id, f, limit, from + 1, to)

\* The least n >= 1 with n * limit >= total.
PagesNeeded(total, limit) ==
    CHOOSE n \in 1..(total + 1) :
        n * limit >= total /\ (n = 1 \/ (n - 1) * limit < total)

\* C16: for every stored line, filter and limit >= 1, the pages 1..totalPages
\* of getTransactions put end to end are the filtered entries of the line,
\* each exactly once and in the order of the log; total is the number of
\* filtered entries, totalPages = max(1, ceil(total / limit)) on every page,
\* and the pages after totalPages are empty.
PaginationLossless ==
    \A id \in DOMAIN _store, f \in PageFilterSet, limit \in LimitSet :
        LET first == GetTransactions(id, f, 1, limit)
            expected == Filtered(id, f)
        IN /\ first.result = "ok"
           /\ first.total = Len(expected)
           /\ first.totalPages = PagesNeeded(Len(expected), limit)
           /\ ConcatPages(id, f, limit, 1, first.totalPages) = expected
           /\ \A page \in 1..(first.totalPages + 2) :
                 LET r == GetTransactions(id, f, page, limit) IN
                    /\ r.total = first.total
                    /\ r.totalPages = first.totalPages
                    /\ Len(r.transactions) <= limit
                    /\ page > first.totalPages => r.transactions = <<>>
           /\ \A i, j \in DOMAIN expected : i # j => expected[i].id # expected[j].id

\* The second of several pages was read and held entries.
PaginationLosslessWitness ==
    /\ lastPage.page.result = "ok"
    /\ lastPage.page.page = 2
    /\ lastPage.page.limit = 2
    /\ lastPage.page.totalPages >= 2
    /\ lastPage.page.transactions # <<>>
    /\ lastPage.page.total = Len(LogOf(lastPage.id))

\* C17: getTransactions throws CreditLineNotFoundError for an id that is not
\* stored; for a stored line its entries are, before pagination, exactly the
\* entries of the line's log whose type equals filters.type when given and
\* whose timestamp t satisfies from <= t when from is given and t <= to when
\* to is given, inclusive on both sides.
FilteringExact ==
    /\ \A id \in (LineIds \cup {"cl-9"}) \ DOMAIN _store, f \in FilterSet :
          GetTransactions(id, f, 1, MaxTx + 1).result = "CreditLineNotFoundError"
    /\ \A id \in DOMAIN _store, f \in FilterSet :
          LET r == GetTransactions(id, f, 1, MaxTx + 1) IN
             /\ r.result = "ok"
             /\ r.transactions = Filtered(id, f)
             /\ r.total = Len(Filtered(id, f))
             /\ \A i \in DOMAIN LogOf(id) :
                   InWindow(LogOf(id)[i], f) <=>
                      \E j \in DOMAIN r.transactions : r.transactions[j] = LogOf(id)[i]

\* A read with from = to = 1 returned some entries of a log that also holds
\* entries before and after that instant, the returned ones all at instant 1.
FilteringExactWitness ==
    /\ lastPage.page.result = "ok"
    /\ lastPage.filters.from = Some(1) /\ lastPage.filters.to = Some(1)
    /\ lastPage.page.total >= 1
    /\ \E i, j \in DOMAIN LogOf(lastPage.id) :
          LogOf(lastPage.id)[i].timestamp = 0 /\ LogOf(lastPage.id)[j].timestamp = 2
    /\ lastPage.page.total
          = Cardinality({i \in DOMAIN LogOf(lastPage.id) :
                            LogOf(lastPage.id)[i].timestamp = 1})

\* C18: in what getTransactions returns, an entry appended later to the
\* line's log comes before an entry appended earlier.
NewestFirstOnRead ==
    \A id \in DOMAIN _store :
        LET txs == GetTransactions(id, NoFilters, DefaultPage, DefaultLimit).transactions
        IN \A i, j \in DOMAIN txs : i < j => txs[i].id > txs[j].id
\* C19: the events of every stored line are as many as the status_change
\* transactions recorded for it.
EventsMatchTransactions ==
    \A id \in DOMAIN _store :
        Len(_store[id].events)
           = Len(SelectSeq(LogOf(id), LAMBDA tx : tx.type = "status_change"))

(***************************************************************************)
(* Properties of the job queue: failing handlers                           *)
(***************************************************************************)
\* What the step does in which a handler throws or rejects.
FailureContained ==
    HandlerDone(FALSE) =>
        /\ \A i \in 2..Len(ready) :
              \/ InSeq(ready', ready[i].key)
              \/ ready[i].key \in dropped' /\ InSeq(failed', ready[i].key)
        /\ InSeq(pending', Head(ready).key) \/ InSeq(failed', Head(ready).key)
        /\ processing' <=> ready' # <<>>
        /\ running' = running /\ timers' = timers /\ handlers' = handlers

\* enqueue returns without running any handler.
EnqueueRunsNoHandler ==
    \A type \in JobTypes, options \in EnqueueOptionsSet :
        Enqueue(type, options) =>
            /\ Len(hist') = Len(hist) + 1
            /\ SubSeq(hist', 1, Len(hist)) = hist
            /\ hist'[Len(hist')].calls = <<>>
            /\ UNCHANGED <<failed, ready, processing, tickOwner>>

\* Between ticks no batch is left behind and the next tick can start.
TicksKeepRunning ==
    /\ ~processing => ready = <<>>
    /\ (running /\ ~processing /\ ReadyJobs(pending, qnow) # <<>>) =>
          ENABLED (TimerTick \/ DrainCallTick)
    /\ nextKey <= MaxJobs =>
          \A type \in JobTypes, options \in EnqueueOptionsSet :
              ENABLED Enqueue(type, options)

\* C20: when a handler throws or rejects, the rest of the tick's batch is
\* still processed (each remaining job is invoked next, waits in the batch
\* or is quarantined), the failed job goes to pending or failed, processing
\* is false again as soon as the batch is finished, the timer and the
\* running flag are untouched and the next tick can start; enqueue is always
\* possible and returns without any handler having run.
HandlerFailureContained ==
    []TicksKeepRunning /\ [][FailureContained /\ EnqueueRunsNoHandler]_vars

\* A handler failed, its job was requeued, and the next job of the queue is
\* being handled at the same instant.
HandlerFailureContainedWitness ==
    \E k1, k2 \in DOMAIN hist :
        /\ k1 < k2
        /\ hist[k1].calls # <<>>
        /\ hist[k1].calls[Len(hist[k1].calls)] = "fail"
        /\ hist[k1].lastFailAt = qnow
        /\ hist[k2].enqueuedAt = hist[k1].enqueuedAt
        /\ InSeq(pending, k1)
        /\ processing
        /\ Head(ready).key = k2
(***************************************************************************)
(* Properties of isValid                                                   *)
(***************************************************************************)
\* C21: isValid(w), run without anything else touching the store or the
\* clock, returns true when an evaluation of w is stored and those with the
\* greatest evaluatedAt have expiresAt > now, and false when no evaluation
\* of w is stored or those with the greatest evaluatedAt have expiresAt <=
\* now; a started isValid always returns (it has no failing path).
IsValidExact ==
    \A p \in Callers :
        /\ call[p].pc = "isValid" => ENABLED IsValidResume(p)
        /\ (call[p].pc = "gotValid" /\ Undisturbed(p)) =>
              /\ HadValidLatest(p) => call[p].isValid
              /\ HadNoValidLatest(p) => ~call[p].isValid

\* isValid returned false for a wallet whose latest evaluation expires at
\* this very instant.
IsValidExactWitness ==
    \E p \in Callers :
        /\ call[p].pc = "gotValid" /\ Undisturbed(p) /\ ~call[p].isValid
        /\ \E e \in LatestEntries(obs[p].store, call[p].walletAddress) : e.expiresAt = rnow

(***************************************************************************)
(* Properties of size()                                                    *)
(***************************************************************************)
SucceededKeys == {k \in DOMAIN hist : \E i \in DOMAIN hist[k].calls : hist[k].calls[i] = "ok"}
FailedKeys == {failed[i].key : i \in DOMAIN failed}
UnfinishedKeys == (DOMAIN hist) \ (SucceededKeys \cup FailedKeys)

\* C22: at every moment, also while a tick is in progress, size() equals
\* the number of enqueued jobs that have neither finished successfully nor
\* been moved to the failed set.
SizeCountsUnfinished == size = Cardinality(UnfinishedKeys)

(***************************************************************************)
(* Properties of job ids                                                   *)
(***************************************************************************)
\* The jobs the queue holds: pending, in the batch of the tick in flight,
\* or failed.
HeldJobs == pending \o ready \o failed

\* C23: no two jobs that are pending, in flight or failed share the same
\* id, whether the ids were generated or provided by the caller.
JobIdsUnique ==
    \A i, j \in DOMAIN HeldJobs : HeldJobs[i].id = HeldJobs[j].id => i = j

(***************************************************************************)
(* Properties of the attempt count                                         *)
(***************************************************************************)
\* The attempts of the copies of job k in a list of jobs.
AttemptsIn(seq, k) == {seq[i].attempts : i \in {i \in DOMAIN seq : seq[i].key = k}}

PendingWithinMaxAttempts ==
    \A i \in DOMAIN pending :
        pending[i].maxAttempts >= 1 => pending[i].attempts <= pending[i].maxAttempts

\* One step of the queue, seen from job k: its attempts grow by one when
\* this step records a failed invocation of its handler and stay as they
\* are otherwise.
AttemptsStep(k) ==
    LET failedNow == Failures(hist'[k].calls) - Failures(hist[k].calls) IN
    /\ failedNow \in {0, 1}
    /\ \A a \in AttemptsIn(HeldJobs, k) : \A b \in AttemptsIn(HeldJobs', k) :
           b = a + failedNow

FailedIsTerminal ==
    /\ IsPrefix(failed, failed')
    /\ \A i \in DOMAIN failed : ~InSeq(pending', failed[i].key) /\ ~InSeq(ready', failed[i].key)

\* C24: every pending job with maxAttempts >= 1 has attempts <= maxAttempts;
\* the attempts of a job never decrease and grow by exactly one per failed
\* handler invocation; a job in the failed set stays there, unchanged, and
\* is never placed in pending (or in a batch) again.
AttemptCountInvariant ==
    /\ []PendingWithinMaxAttempts
    /\ [][/\ \A k \in DOMAIN hist : AttemptsStep(k)
          /\ FailedIsTerminal]_vars

\* A job that failed once is pending again with attempts = 1 < maxAttempts,
\* while another one has exhausted its attempts and is in the failed set.
AttemptCountInvariantWitness ==
    /\ \E i \in DOMAIN pending :
          /\ pending[i].attempts = 1
          /\ pending[i].maxAttempts > 1
          /\ Failures(hist[pending[i].key].calls) = 1
    /\ \E i \in DOMAIN failed :
          /\ failed[i].attempts = failed[i].maxAttempts
          /\ failed[i].attempts >= 1

(***************************************************************************)
(* Properties of the order inside a tick                                   *)
(***************************************************************************)
\* C25: within a tick the handlers are invoked one after another in enqueue
\* order, also when one of the jobs is a retried one: when a tick goes on
\* from the job whose handler it awaited to the next job of its batch, the
\* next job was enqueued later (keys number the jobs in enqueue order).
TickInEnqueueOrder ==
    [][(ready # <<>> /\ ready' # <<>> /\ Head(ready').key # Head(ready).key)
          => Head(ready).key < Head(ready').key]_vars

(***************************************************************************)
(* Properties of draws against the ledger status                           *)
(***************************************************************************)
LedgerStatusOf(id) == IF id \in DOMAIN _store THEN _store[id].status ELSE "none"

\* C26: a draw on a line that the ledger holds as suspended or closed
\* fails with InvalidStatus and leaves utilized unchanged, and a draw on a
\* line of the ledger succeeds only when its ledger status is active.
StatusGatesDraws ==
    [][\A b \in Borrowers, amount \in Amounts :
          drawFromCreditLine("line-1", b, amount) =>
             /\ LedgerStatusOf("line-1") \in {"suspended", "closed"} =>
                   /\ lastDraw'.result = "INVALID_STATUS"
                   /\ creditLines' = creditLines
             /\ (lastDraw'.result = "ok" /\ "line-1" \in DOMAIN _store) =>
                   LedgerStatusOf("line-1") = "active"]_vars

(***************************************************************************)
(* Job conservation                                                        *)
(***************************************************************************)
\* The number of places job k is in.
Places(k) ==
    Occurrences(pending, k) + Occurrences(ready, k) + Occurrences(failed, k)
       + (IF k \in SucceededKeys THEN 1 ELSE 0)

\* C27: every enqueued job is in exactly one place: once in the pending
\* list, once in the batch of the tick in progress, once in the failed set,
\* or completed after a successful handler run; and the queue holds no job
\* that was not enqueued.
JobConservation ==
    /\ \A k \in DOMAIN hist : Places(k) = 1
    /\ \A i \in DOMAIN HeldJobs : HeldJobs[i].key \in DOMAIN hist

\* One job is being handled while the other one has been returned to
\* pending for a retry or waits for its time.
JobConservationWitness ==
    /\ Len(hist) = MaxJobs
    /\ \E k \in DOMAIN hist : InSeq(ready, k) /\ Len(hist[k].calls) >= 1
    /\ \E k \in DOMAIN hist : InSeq(pending, k)

(***************************************************************************)
(* Jobs enqueued while a tick is in progress                               *)
(***************************************************************************)
\* A tick is in progress exactly while `processing` is set; hist[k].duringTick
\* records that job k was enqueued in such a moment.
TickKeepsPending ==
    processing =>
        /\ \A i \in DOMAIN pending : InSeq(pending', pending[i].key)
        /\ \A i \in DOMAIN ready' : InSeq(ready, ready'[i].key)

EnqueuedDuringTickGoesToPending ==
    (processing /\ Len(hist') > Len(hist)) =>
        /\ hist'[Len(hist')].duringTick
        /\ InSeq(pending', Len(hist'))
        /\ ~InSeq(ready', Len(hist'))
        /\ hist'[Len(hist')].calls = <<>>

LaterTickTakesDueJobs ==
    (~TickSkipped /\ (TimerTick \/ DrainCallTick)) =>
        \A i \in DOMAIN pending :
            pending[i].nextRunAt <= qnow =>
               /\ ~InSeq(pending', pending[i].key)
               /\ \/ InSeq(ready', pending[i].key)
                  \/ /\ pending[i].type \notin handlers
                     /\ InSeq(failed', pending[i].key)

\* C28: a job enqueued while a tick is in progress goes to pending and not
\* into the batch of that tick; while the tick lasts and when it ends no
\* job leaves pending and none joins the batch, so the job is in pending
\* when the tick ends, next to the waiting and the retried jobs; a later
\* tick that starts when the job is due takes it out of pending into its
\* batch, to hand it to its handler (or, without handler, to the failed set).
EnqueuedDuringTickKept ==
    [][/\ TickKeepsPending
       /\ EnqueuedDuringTickGoesToPending
       /\ LaterTickTakesDueJobs]_vars

\* A job enqueued while a tick was in progress is being handled by a later
\* tick: the job the earlier tick handled has finished before.
EnqueuedDuringTickKeptWitness ==
    \E k \in DOMAIN hist :
        /\ hist[k].duringTick
        /\ ready # <<>> /\ Head(ready).key = k
        /\ hist[k].calls = <<"running">>
        /\ \E j \in DOMAIN hist : j < k /\ hist[j].calls # <<>> /\ ~InSeq(ready, j)

(***************************************************************************)
(* Interleaved evaluateRisk calls                                          *)
(***************************************************************************)
\* Callers p and q, both without forceRefresh and on the same wallet, have
\* each computed and stored a new evaluation; the store holds these two
\* evaluations and nothing else was ever saved, and both are unexpired.
BothRecomputed(p, q) ==
    /\ call[p].pc = "saved" /\ call[q].pc = "saved"
    /\ ~call[p].forceRefresh /\ ~call[q].forceRefresh
    /\ call[p].walletAddress = call[q].walletAddress
    /\ evalCount = 2 /\ Len(evaluations) = 2
    /\ \A i \in DOMAIN evaluations :
          /\ evaluations[i].walletAddress = call[p].walletAddress
          /\ evaluations[i].riskScore = WeightedSum(Factors)
          /\ evaluations[i].expiresAt > rnow

\* C29: of two interleaved evaluateRisk calls for the same wallet without
\* forceRefresh, started when the wallet had no valid evaluation, at most
\* one computes and stores a new evaluation within the validity window.
NoRedundantRecomputation ==
    \A p, q \in Callers : p # q => ~BothRecomputed(p, q)

(***************************************************************************)
(* Progress of a running queue                                             *)
(***************************************************************************)
\* Job k has completed successfully or is in the failed set.
Settled(k) == k \in SucceededKeys \/ InSeq(failed, k)

InvocationsBounded ==
    \A k \in DOMAIN hist :
        hist[k].maxAttempts >= 1 => Len(hist[k].calls) <= hist[k].maxAttempts

\* C30: in a queue that is started and stays running, with time advancing,
\* the timer firing and every handler invocation terminating, every
\* enqueued job eventually completes successfully or is moved to the failed
\* set, and is invoked at most maxAttempts times on the way (for the
\* maxAttempts >= 1 of the job model).
QueueProgress ==
    /\ \A k \in 1..MaxJobs : (running /\ k \in DOMAIN hist) ~> Settled(k)
    /\ []InvocationsBounded

\* Both outcomes have happened in a running queue: one job completed after
\* a failed attempt, one was moved to the failed set after maxAttempts
\* failed invocations.
QueueProgressWitness ==
    /\ running
    /\ \E k \in SucceededKeys : Failures(hist[k].calls) >= 1
    /\ \E i \in DOMAIN failed :
          /\ failed[i].maxAttempts >= 2
          /\ Len(hist[failed[i].key].calls) = failed[i].maxAttempts

====
